---- MODULE Spec2Model ----
(***************************************************************************)
(* Shopify MCP server: the HTTP surface (shopify_mcp.py) and the tool      *)
(* surface (shopify_mcp_fastmcp.py).                                        *)
(*                                                                         *)
(* Strings that the code inspects (search fields, query-string values,     *)
(* request paths) are sequences of characters or of path pieces, so that   *)
(* lower(), `in`, int() and replace() are computed, not assumed.  Python   *)
(* values that reach a response are tagged with their type (list / dict).  *)
(* The Remote Data Client is the environment: each request draws what the  *)
(* remote store holds and whether the client raises.                       *)
(***************************************************************************)
EXTENDS Integers, Sequences, FiniteSets, TLC

VARIABLES
    surface,        \* which script runs: "http" (shopify_mcp.py) or "stdio" (shopify_mcp_fastmcp.py)
    environ,        \* os.environ: the SHOPIFY_* variables
    argv,           \* sys.argv[1], the port given to shopify_mcp.py
    accepts,        \* the remote platform accepts the configured credentials
    pc,             \* where the process is: "start", "init", "initialized", "accept",
                    \* "handling", "finish", "exited"
    initialized,    \* what init_shopify_api() returned
    startup_calls,  \* the client calls init_shopify_api() made
    listening,      \* the HTTPServer is bound / mcp.run() reads stdin
    exit_code,      \* "none" while the process runs, then the code it exited with
    req,            \* the request being handled
    upstream,       \* what the Remote Data Client meets while it is handled
    out,            \* what the handler did: the response and the calls made
    failedBefore    \* a client call raised during an earlier request of this process

\* what the process is started with
config == <<surface, environ, argv, accepts>>

\* what the startup leaves behind
started == <<initialized, startup_calls, listening, exit_code>>

vars == <<config, pc, started, req, upstream, out, failedBefore>>

-----------------------------------------------------------------------------
(* Bounds of the model *)

\* the remote store holds at most this many records of one resource type
MaxStore == 2

-----------------------------------------------------------------------------
(* Python values *)

EmptyMap == [k \in {} |-> 0]

PyNone == [py |-> "none", items |-> <<>>, map |-> EmptyMap]
PyList(s) == [py |-> "list", items |-> s, map |-> EmptyMap]
PyDict(m) == [py |-> "dict", items |-> <<>>, map |-> m]

\* a JSON / Python scalar that is an int or a str
JInt(i) == [jt |-> "int", int |-> i, str |-> <<>>]
JStr(s) == [jt |-> "str", int |-> 0, str |-> s]

\* None where a str is expected (an attribute the remote record holds as null)
NoneStr == <<"<None>">>

Min(a, b) == IF a < b THEN a ELSE b

\* s[:n] for n >= 0
Take(s, n) == SubSeq(s, 1, Min(n, Len(s)))

\* dict.get(key, default)
Get(d, key, default) == IF key \in DOMAIN d THEN d[key] ELSE default

\* the result of evaluating an expression: a value, or a raised exception
Returns(v) == [raised |-> FALSE, exc |-> "", val |-> v]
Raises(e) == [raised |-> TRUE, exc |-> e, val |-> PyNone]

-----------------------------------------------------------------------------
(* str.lower(), `x in s`, int(s), str.replace(old, '') *)

LowerChar(c) ==
    CASE c = "A" -> "a"
      [] c = "B" -> "b"
      [] c = "C" -> "c"
      [] OTHER -> c

lower(s) == [i \in 1..Len(s) |-> LowerChar(s[i])]

\* Python's substring test `q in s`
In(q, s) == \E i \in 0..(Len(s) - Len(q)) : SubSeq(s, i + 1, i + Len(q)) = q

Digits == {"0", "1", "2", "3", "4", "5", "6", "7", "8", "9"}

DigitValue(c) ==
    CASE c = "0" -> 0 [] c = "1" -> 1 [] c = "2" -> 2 [] c = "3" -> 3
      [] c = "4" -> 4 [] c = "5" -> 5 [] c = "6" -> 6 [] c = "7" -> 7
      [] c = "8" -> 8 [] c = "9" -> 9

RECURSIVE DecimalValue(_)
DecimalValue(s) ==
    IF s = <<>> THEN 0
    ELSE 10 * DecimalValue(SubSeq(s, 1, Len(s) - 1)) + DigitValue(s[Len(s)])

AllDigits(s) == s # <<>> /\ \A i \in 1..Len(s) : s[i] \in Digits

\* int(s) of a str: an optional sign and decimal digits, ValueError otherwise
int(s) ==
    IF AllDigits(s) THEN Returns(DecimalValue(s))
    ELSE IF s # <<>> /\ s[1] = "-" /\ AllDigits(Tail(s))
         THEN Returns(0 - DecimalValue(Tail(s)))
    ELSE IF s # <<>> /\ s[1] = "+" /\ AllDigits(Tail(s))
         THEN Returns(DecimalValue(Tail(s)))
    ELSE Raises("ValueError")

\* a path is the sequence of its pieces, "/api/" being one piece:
\* '/api/products' is <<"/api/", "products">>
ApiPrefix == "/api/"

\* path.replace('/api/', ''): every occurrence is removed, not only the prefix
RECURSIVE replace_api(_)
replace_api(path) ==
    IF path = <<>> THEN <<>>
    ELSE IF Head(path) = ApiPrefix THEN replace_api(Tail(path))
    ELSE <<Head(path)>> \o replace_api(Tail(path))

\* path.startswith('/api/')
startswith_api(path) == path # <<>> /\ Head(path) = ApiPrefix

-----------------------------------------------------------------------------
(* The remote platform's records, as the Remote Data Client delivers them.  *)
(* `absent` names the attributes the record does not have: reading one      *)
(* raises AttributeError and hasattr() is False for it.  An optional        *)
(* sub-record is a sequence of length 0 (None) or 1.                        *)

Variant(id, title) ==
    [id |-> id, title |-> title, price |-> "9.99", sku |-> "SKU", inventory_quantity |-> 5]

Image(id, src, position) == [id |-> id, src |-> src, position |-> position]

ProductAlpha ==
    [id |-> 1, title |-> <<"A", "b">>, body_html |-> "<p>alpha</p>",
     product_type |-> <<"d">>, vendor |-> <<"c">>, tags |-> <<>>,
     created_at |-> "2023-01-01", updated_at |-> "2023-01-02",
     variants |-> <<Variant(11, "S"), Variant(12, "M")>>,
     images |-> <<Image(101, "u101", 1), Image(102, "u102", 2)>>,
     absent |-> {}]

ProductTagged ==
    [id |-> 2, title |-> <<"c">>, body_html |-> "<p>tagged</p>",
     product_type |-> <<"d">>, vendor |-> <<"d">>, tags |-> <<"A", "B">>,
     created_at |-> "2023-02-01", updated_at |-> "2023-02-02",
     variants |-> <<>>, images |-> <<>>, absent |-> {}]

ProductSplit ==
    [id |-> 3, title |-> <<"c", "a">>, body_html |-> "<p>split</p>",
     product_type |-> <<"c">>, vendor |-> <<"b", "d">>, tags |-> <<"d">>,
     created_at |-> "2023-03-01", updated_at |-> "2023-03-02",
     variants |-> <<Variant(31, "L")>>, images |-> <<Image(301, "u301", 1)>>,
     absent |-> {}]

ProductNoTags ==
    [id |-> 4, title |-> <<"d">>, body_html |-> "<p>notags</p>",
     product_type |-> <<"c">>, vendor |-> <<"c">>, tags |-> NoneStr,
     created_at |-> "2023-04-01", updated_at |-> "2023-04-02",
     variants |-> <<Variant(41, "S")>>, images |-> <<>>, absent |-> {}]

ProductBroken ==
    [id |-> 5, title |-> <<"a">>, body_html |-> "<p>broken</p>",
     product_type |-> <<"c">>, vendor |-> <<"c">>, tags |-> <<>>,
     created_at |-> "2023-05-01", updated_at |-> "2023-05-02",
     variants |-> <<>>, images |-> <<>>, absent |-> {"variants"}]

ProductCatalog == {ProductAlpha, ProductTagged, ProductSplit, ProductNoTags, ProductBroken}

Address(name, city) ==
    [name |-> name, address1 |-> "1 Main St", city |-> city, province |-> "ON",
     country |-> "CA", zip |-> "A1A"]

CustomerFull ==
    [id |-> 21, email |-> "ann@example.com", first_name |-> "Ann", last_name |-> "Lee",
     orders_count |-> 3, total_spent |-> "30.00", created_at |-> "2022-01-01",
     addresses |-> <<Address("Ann", "Ottawa"), Address("Ann", "Toronto")>>, absent |-> {}]

CustomerBare ==
    [id |-> 22, email |-> "bob@example.com", first_name |-> "Bob", last_name |-> "Ray",
     orders_count |-> 0, total_spent |-> "0.00", created_at |-> "2022-02-01",
     addresses |-> <<>>, absent |-> {"addresses"}]

CustomerBroken ==
    [id |-> 23, email |-> "cy@example.com", first_name |-> "Cy", last_name |-> "Orr",
     orders_count |-> 1, total_spent |-> "5.00", created_at |-> "2022-03-01",
     addresses |-> <<>>, absent |-> {"email"}]

CustomerCatalog == {CustomerFull, CustomerBare, CustomerBroken}

LineItem(id, product_id, variant_id) ==
    [id |-> id, title |-> "item", quantity |-> 1, price |-> "9.99", sku |-> "SKU",
     product_id |-> product_id, variant_id |-> variant_id]

OrderCustomer ==
    [id |-> 21, email |-> "ann@example.com", first_name |-> "Ann", last_name |-> "Lee"]

OrderFull ==
    [id |-> 31, order_number |-> 1001, email |-> "ann@example.com",
     created_at |-> "2023-06-01", total_price |-> "19.98", subtotal_price |-> "17.98",
     total_tax |-> "2.00", currency |-> "CAD", financial_status |-> "paid",
     fulfillment_status |-> "fulfilled",
     customer |-> <<OrderCustomer>>, shipping_address |-> <<Address("Ann", "Ottawa")>>,
     line_items |-> <<LineItem(311, 1, 11), LineItem(312, 3, 31)>>, absent |-> {}]

OrderBare ==
    [id |-> 32, order_number |-> 1002, email |-> "bob@example.com",
     created_at |-> "2023-06-02", total_price |-> "0.00", subtotal_price |-> "0.00",
     total_tax |-> "0.00", currency |-> "CAD", financial_status |-> "pending",
     fulfillment_status |-> "none",
     customer |-> <<>>, shipping_address |-> <<>>,
     line_items |-> <<>>, absent |-> {"customer"}]

OrderBroken ==
    [id |-> 33, order_number |-> 1003, email |-> "cy@example.com",
     created_at |-> "2023-06-03", total_price |-> "1.00", subtotal_price |-> "1.00",
     total_tax |-> "0.00", currency |-> "CAD", financial_status |-> "paid",
     fulfillment_status |-> "none",
     customer |-> <<>>, shipping_address |-> <<>>,
     line_items |-> <<>>, absent |-> {"line_items"}]

OrderCatalog == {OrderFull, OrderBare, OrderBroken}

TheShop ==
    [id |-> 1, name |-> "Shop", email |-> "shop@example.com", domain |-> "shop.example.com",
     province |-> "ON", country |-> "CA", address1 |-> "1 Main St", zip |-> "A1A",
     city |-> "Ottawa", phone |-> "555", created_at |-> "2020-01-01",
     shop_owner |-> "Ann", plan_name |-> "basic", has_storefront |-> TRUE,
     money_format |-> "$", weight_unit |-> "kg", primary_locale |-> "en",
     country_name |-> "Canada", currency |-> "CAD", timezone |-> "EST"]

\* the sequences over S of length at most n
SeqsUpTo(S, n) == UNION {[1..k -> S] : k \in 0..n}

NoRecords == [products |-> <<>>, customers |-> <<>>, orders |-> <<>>]

\* what the remote platform holds while one request is served, whether the
\* client's calls raise (a transport or authentication error), and whether the
\* call never returns (no timeout is set on the client)
Remotes ==
    {[fail |-> TRUE, hang |-> FALSE] @@ NoRecords, [fail |-> FALSE, hang |-> TRUE] @@ NoRecords}
    \cup {[fail |-> FALSE, hang |-> FALSE, products |-> s, customers |-> <<>>, orders |-> <<>>] :
             s \in SeqsUpTo(ProductCatalog, MaxStore)}
    \cup {[fail |-> FALSE, hang |-> FALSE, products |-> <<>>, customers |-> s, orders |-> <<>>] :
             s \in SeqsUpTo(CustomerCatalog, MaxStore)}
    \cup {[fail |-> FALSE, hang |-> FALSE, products |-> <<>>, customers |-> <<>>, orders |-> s] :
             s \in SeqsUpTo(OrderCatalog, MaxStore)}

-----------------------------------------------------------------------------
(* Remote Data Client *)

\* R.find(limit=limit): the first `limit` records; what the platform answers to a
\* limit that is no positive integer is the platform's business: it answers with
\* some records or the call raises
find(records, limit, remote) ==
    IF remote.fail THEN Raises("ConnectionError")
    ELSE IF limit.jt = "int" /\ limit.int >= 1 THEN Returns(Take(records, limit.int))
    ELSE Returns(records)

\* the record of one call to the client
Call(op, arg, r) == [op |-> op, arg |-> arg, raised |-> r.raised]

\* shopify.Shop.current()
Shop_current(remote) == IF remote.fail THEN Raises("ConnectionError") ELSE Returns(TheShop)

\* str(x) of a timestamp the client delivers as a str
str(x) == x

-----------------------------------------------------------------------------
(* shopify_mcp.py: data retrieval functions.  Each returns                  *)
(* [val, calls, caught]: the value returned, the client calls made, and     *)
(* whether its `except Exception` clause ran.                               *)

Handled(v, calls, caught) ==
    [val |-> v, calls |-> calls, caught |-> caught, raised |-> FALSE, exc |-> ""]

\* a function that lets the exception out instead of returning
Propagated(calls, exc) ==
    [val |-> PyNone, calls |-> calls, caught |-> FALSE, raised |-> TRUE, exc |-> exc]

NoArg == [jt |-> "none", int |-> 0, str |-> <<>>]

SearchPageSize == 50
DefaultLimit == 10

ProductAttrs ==
    {"id", "title", "body_html", "product_type", "vendor", "tags", "created_at",
     "updated_at", "variants", "images"}

VariantDict(v) ==
    [id |-> v.id, title |-> v.title, price |-> v.price, sku |-> v.sku,
     inventory_quantity |-> v.inventory_quantity]

ImageDict(i) == [id |-> i.id, src |-> i.src, position |-> i.position]

\* the product_dict with the images taken last to first
ProductDict_images_reversed(p) ==
    [id |-> p.id, title |-> p.title, description |-> p.body_html,
     product_type |-> p.product_type, vendor |-> p.vendor, tags |-> p.tags,
     created_at |-> str(p.created_at), updated_at |-> str(p.updated_at),
     variants |-> [i \in 1..Len(p.variants) |-> VariantDict(p.variants[i])],
     images |-> [i \in 1..Len(p.images) |-> ImageDict(p.images[Len(p.images) + 1 - i])]]

\* the product_dict of get_product_list, for a product that has every attribute read
ProductDict(p) ==
    [id |-> p.id, title |-> p.title, description |-> p.body_html,
     product_type |-> p.product_type, vendor |-> p.vendor, tags |-> p.tags,
     created_at |-> str(p.created_at), updated_at |-> str(p.updated_at),
     variants |-> [i \in 1..Len(p.variants) |-> VariantDict(p.variants[i])],
     images |-> [i \in 1..Len(p.images) |-> ImageDict(p.images[i])]]

\* get_product_list without its try/except: the exception leaves the function
get_product_list_unguarded(limit, remote) ==
    LET r == find(remote.products, limit, remote)
        calls == <<Call("Product.find", limit, r)>>
    IN  IF r.raised THEN Propagated(calls, r.exc)
        ELSE IF \E i \in 1..Len(r.val) : r.val[i].absent \cap ProductAttrs # {}
        THEN Propagated(calls, "AttributeError")
        ELSE Handled(PyList([i \in 1..Len(r.val) |-> ProductDict(r.val[i])]), calls, FALSE)

get_product_list(limit, remote) ==
    LET r == find(remote.products, limit, remote)
        calls == <<Call("Product.find", limit, r)>>
    IN  IF r.raised \/ \E i \in 1..Len(r.val) : r.val[i].absent \cap ProductAttrs # {}
        THEN Handled(PyList(<<>>), calls, TRUE)
        ELSE Handled(PyList([i \in 1..Len(r.val) |-> ProductDict(r.val[i])]), calls, FALSE)

CustomerAttrs ==
    {"id", "email", "first_name", "last_name", "orders_count", "total_spent", "created_at"}

AddressDict(a) ==
    [address1 |-> a.address1, city |-> a.city, province |-> a.province,
     country |-> a.country, zip |-> a.zip]

\* the customer_dict whose 'addresses' key is set only inside the hasattr() branch
CustomerDict_without_addresses_key(c) ==
    LET base == [id |-> c.id, email |-> c.email, first_name |-> c.first_name,
                 last_name |-> c.last_name, orders_count |-> c.orders_count,
                 total_spent |-> c.total_spent, created_at |-> str(c.created_at)]
    IN  IF "addresses" \notin c.absent
        THEN base @@ [addresses |-> [i \in 1..Len(c.addresses) |-> AddressDict(c.addresses[i])]]
        ELSE base

\* hasattr(customer, 'addresses') guards the loop over customer.addresses
CustomerDict(c) ==
    [id |-> c.id, email |-> c.email, first_name |-> c.first_name,
     last_name |-> c.last_name, orders_count |-> c.orders_count,
     total_spent |-> c.total_spent, created_at |-> str(c.created_at),
     addresses |-> IF "addresses" \notin c.absent
                   THEN [i \in 1..Len(c.addresses) |-> AddressDict(c.addresses[i])]
                   ELSE <<>>]

get_customer_list(limit, remote) ==
    LET r == find(remote.customers, limit, remote)
        calls == <<Call("Customer.find", limit, r)>>
    IN  IF r.raised \/ \E i \in 1..Len(r.val) : r.val[i].absent \cap CustomerAttrs # {}
        THEN Handled(PyList(<<>>), calls, TRUE)
        ELSE Handled(PyList([i \in 1..Len(r.val) |-> CustomerDict(r.val[i])]), calls, FALSE)

OrderAttrs ==
    {"id", "order_number", "email", "created_at", "total_price", "subtotal_price",
     "total_tax", "currency", "financial_status", "fulfillment_status", "line_items"}

ShippingDict(a) ==
    [name |-> a.name, address1 |-> a.address1, city |-> a.city,
     province |-> a.province, country |-> a.country, zip |-> a.zip]

ItemDict(i) ==
    [id |-> i.id, title |-> i.title, quantity |-> i.quantity, price |-> i.price,
     sku |-> i.sku, product_id |-> i.product_id, variant_id |-> i.variant_id]

\* hasattr(order, X) and order.X guard the customer and the shipping address
OrderDict(o) ==
    [id |-> o.id, order_number |-> o.order_number, email |-> o.email,
     created_at |-> str(o.created_at), total_price |-> o.total_price,
     subtotal_price |-> o.subtotal_price, total_tax |-> o.total_tax,
     currency |-> o.currency, financial_status |-> o.financial_status,
     fulfillment_status |-> o.fulfillment_status,
     customer |-> IF "customer" \notin o.absent /\ o.customer # <<>>
                  THEN [id |-> o.customer[1].id, email |-> o.customer[1].email,
                        first_name |-> o.customer[1].first_name,
                        last_name |-> o.customer[1].last_name]
                  ELSE EmptyMap,
     shipping_address |-> IF "shipping_address" \notin o.absent /\ o.shipping_address # <<>>
                          THEN ShippingDict(o.shipping_address[1])
                          ELSE EmptyMap,
     line_items |-> [i \in 1..Len(o.line_items) |-> ItemDict(o.line_items[i])]]

\* get_order_list returning, from its except clause, the orders collected so far
get_order_list_partial(limit, remote) ==
    LET r == find(remote.orders, limit, remote)
        calls == <<Call("Order.find", limit, r)>>
        good == IF r.raised THEN {}
                ELSE {n \in 0..Len(r.val) :
                        \A i \in 1..n : r.val[i].absent \cap OrderAttrs = {}}
        done == CHOOSE n \in good : \A m \in good : m <= n
    IN  IF r.raised THEN Handled(PyList(<<>>), calls, TRUE)
        ELSE Handled(PyList([i \in 1..done |-> OrderDict(r.val[i])]), calls, done < Len(r.val))

get_order_list(limit, remote) ==
    LET r == find(remote.orders, limit, remote)
        calls == <<Call("Order.find", limit, r)>>
    IN  IF r.raised \/ \E i \in 1..Len(r.val) : r.val[i].absent \cap OrderAttrs # {}
        THEN Handled(PyList(<<>>), calls, TRUE)
        ELSE Handled(PyList([i \in 1..Len(r.val) |-> OrderDict(r.val[i])]), calls, FALSE)

\* the fields compared when the tags are left out of the condition
SearchFields_without_tags == <<"title", "vendor", "product_type">>

\* the fields of the match condition, in the order of its `or`
SearchFields == <<"title", "vendor", "product_type", "tags">>

\* query in product.title.lower() or ... or query in product.tags.lower(), evaluated
\* left to right from field k on: "match", "nomatch", or "raise" when a field that
\* is reached is absent or None
RECURSIVE MatchFrom(_, _, _)
MatchFrom(query, p, k) ==
    IF k > Len(SearchFields) THEN "nomatch"
    ELSE IF SearchFields[k] \in p.absent \/ p[SearchFields[k]] = NoneStr THEN "raise"
    ELSE IF In(query, lower(p[SearchFields[k]])) THEN "match"
    ELSE MatchFrom(query, p, k + 1)

\* the query tested against title + vendor + product_type + tags as one string
Match_concatenated(query, p) ==
    IF \E k \in 1..4 : SearchFields[k] \in p.absent \/ p[SearchFields[k]] = NoneStr
    THEN "raise"
    ELSE IF In(query, lower(p.title \o p.vendor \o p.product_type \o p.tags)) THEN "match"
    ELSE "nomatch"

Match(query, p) == MatchFrom(query, p, 1)

SearchAttrs ==
    {"id", "title", "body_html", "product_type", "vendor", "tags", "variants", "images"}

SearchVariantDict(v) == [id |-> v.id, title |-> v.title, price |-> v.price, sku |-> v.sku]

\* the product_dict of search_products with 'image' set from the last image
SearchDict_last_image(p) ==
    LET base == [id |-> p.id, title |-> p.title, description |-> p.body_html,
                 product_type |-> p.product_type, vendor |-> p.vendor, tags |-> p.tags,
                 variants |-> [i \in 1..Len(p.variants) |-> SearchVariantDict(p.variants[i])],
                 images |-> <<>>]
    IN  IF p.images # <<>> THEN base @@ [image |-> [src |-> p.images[Len(p.images)].src]]
        ELSE base

\* the product_dict of search_products: 'images' stays empty, 'image' is set from
\* the first image when there is one
SearchDict(p) ==
    LET base == [id |-> p.id, title |-> p.title, description |-> p.body_html,
                 product_type |-> p.product_type, vendor |-> p.vendor, tags |-> p.tags,
                 variants |-> [i \in 1..Len(p.variants) |-> SearchVariantDict(p.variants[i])],
                 images |-> <<>>]
    IN  IF p.images # <<>> THEN base @@ [image |-> [src |-> p.images[1].src]] ELSE base

\* the loop leaving at its first match
RECURSIVE SearchLoop_first_match(_, _, _, _)
SearchLoop_first_match(products, query, k, matched) ==
    IF k > Len(products) THEN Returns(matched)
    ELSE LET m == Match(query, products[k])
         IN  IF m = "raise" THEN Raises("AttributeError")
             ELSE IF m = "nomatch" THEN SearchLoop_first_match(products, query, k + 1, matched)
             ELSE IF products[k].absent \cap SearchAttrs # {} THEN Raises("AttributeError")
             ELSE Returns(Append(matched, SearchDict(products[k])))

\* the loop of search_products over products[k..], matched so far given
RECURSIVE SearchLoop(_, _, _, _)
SearchLoop(products, query, k, matched) ==
    IF k > Len(products) THEN Returns(matched)
    ELSE LET m == Match(query, products[k])
         IN  IF m = "raise" THEN Raises("AttributeError")
             ELSE IF m = "nomatch" THEN SearchLoop(products, query, k + 1, matched)
             ELSE IF products[k].absent \cap SearchAttrs # {} THEN Raises("AttributeError")
             ELSE SearchLoop(products, query, k + 1, Append(matched, SearchDict(products[k])))

\* search_products returning, from its except clause, the matches collected so far
search_products_partial(query, remote) ==
    LET r == find(remote.products, JInt(SearchPageSize), remote)
        calls == <<Call("Product.find", JInt(SearchPageSize), r)>>
        RECURSIVE Collect(_, _)
        Collect(k, matched) ==
            IF k > Len(r.val) THEN Handled(PyList(matched), calls, FALSE)
            ELSE LET m == Match(lower(query.str), r.val[k])
                 IN  IF m = "raise" THEN Handled(PyList(matched), calls, TRUE)
                     ELSE IF m = "nomatch" THEN Collect(k + 1, matched)
                     ELSE IF r.val[k].absent \cap SearchAttrs # {}
                     THEN Handled(PyList(matched), calls, TRUE)
                     ELSE Collect(k + 1, Append(matched, SearchDict(r.val[k])))
    IN  IF r.raised \/ query.jt # "str" THEN Handled(PyList(<<>>), calls, TRUE)
        ELSE Collect(1, <<>>)

\* query is the value the caller passes: query.lower() raises when it is no str
search_products(query, remote) ==
    LET r == find(remote.products, JInt(SearchPageSize), remote)
        calls == <<Call("Product.find", JInt(SearchPageSize), r)>>
    IN  IF r.raised \/ query.jt # "str" THEN Handled(PyList(<<>>), calls, TRUE)
        ELSE LET l == SearchLoop(r.val, lower(query.str), 1, <<>>)
             IN  IF l.raised THEN Handled(PyList(<<>>), calls, TRUE)
                 ELSE Handled(PyList(l.val), calls, FALSE)

ShopDict(shop) ==
    [id |-> shop.id, name |-> shop.name, email |-> shop.email, domain |-> shop.domain,
     province |-> shop.province, country |-> shop.country, address1 |-> shop.address1,
     zip |-> shop.zip, city |-> shop.city, phone |-> shop.phone,
     created_at |-> str(shop.created_at), shop_owner |-> shop.shop_owner,
     plan_name |-> shop.plan_name, has_storefront |-> shop.has_storefront,
     money_format |-> shop.money_format, weight_unit |-> shop.weight_unit,
     primary_locale |-> shop.primary_locale, country_name |-> shop.country_name,
     currency |-> shop.currency, timezone |-> shop.timezone]

get_store_info(remote) ==
    LET r == Shop_current(remote)
        calls == <<Call("Shop.current", NoArg, r)>>
    IN  IF r.raised THEN Handled(PyDict(EmptyMap), calls, TRUE)
        ELSE Handled(PyDict(ShopDict(r.val)), calls, FALSE)

-----------------------------------------------------------------------------
(* shopify_mcp.py: MCPRequestHandler.  A handler method returns what the   *)
(* client of the connection sees and what happened on the way.             *)

\* _set_headers(status) followed by wfile.write(json.dumps(body))
Response(status, body, handler, h) ==
    [written |-> TRUE, status |-> status, body |-> body, handler |-> handler,
     returned |-> h.val, calls |-> h.calls, caught |-> h.caught, escaped |-> "",
     tool_error |-> FALSE]

\* an exception leaves the handler method before anything was written
Escaped(exc, handler, calls) ==
    [written |-> FALSE, status |-> 0, body |-> PyNone, handler |-> handler,
     returned |-> PyNone, calls |-> calls, caught |-> FALSE, escaped |-> exc,
     tool_error |-> FALSE]

\* no data function was called
NoHandler == [val |-> PyNone, calls |-> <<>>, caught |-> FALSE]

ErrorBody(msg) == PyDict([error |-> msg])

\* parse_qs(query): the values of each key in order, blank values dropped, a key
\* without a value left out
parse_qs(raw) ==
    LET valuesOf(k) ==
            LET RECURSIVE Collect(_)
                Collect(i) ==
                    IF i > Len(raw) THEN <<>>
                    ELSE IF raw[i].key = k /\ raw[i].value # <<>>
                         THEN <<raw[i].value>> \o Collect(i + 1)
                    ELSE Collect(i + 1)
            IN  Collect(1)
        keys == {raw[i].key : i \in 1..Len(raw)}
    IN  [k \in {x \in keys : valuesOf(x) # <<>>} |-> valuesOf(k)]

DefaultLimitStr == <<"1", "0">>

\* a default query that is a character no product holds
DefaultQuery_wildcard == <<"*">>

\* the query of a search that gives none: '' in query_params.get('q', [''])[0]
\* and in params.get('query', '')
DefaultQuery == <<>>

\* int(query_params.get('limit', ['10'])[0])
QueryLimit(query_params) == int(Get(query_params, "limit", <<DefaultLimitStr>>)[1])

\* the data function returned r: do_GET writes 200 and the value itself
SendValue(r, handler) ==
    IF r.raised THEN Escaped(r.exc, handler, r.calls)
    ELSE Response(200, r.val, handler, r)

do_GET(request, remote) ==
    LET path == request.path
        query_params == parse_qs(request.query)
        endpoint == replace_api(path)
        limit == QueryLimit(query_params)
    IN  IF path = <<"/health">>
        THEN Response(200, PyDict([status |-> "ok"]), "", NoHandler)
        ELSE IF startswith_api(path)
        THEN CASE endpoint = <<"products">> ->
                    IF limit.raised THEN Escaped(limit.exc, "", <<>>)
                    ELSE SendValue(get_product_list(JInt(limit.val), remote), "get_product_list")
               [] endpoint = <<"customers">> ->
                    IF limit.raised THEN Escaped(limit.exc, "", <<>>)
                    ELSE SendValue(get_customer_list(JInt(limit.val), remote), "get_customer_list")
               [] endpoint = <<"orders">> ->
                    IF limit.raised THEN Escaped(limit.exc, "", <<>>)
                    ELSE SendValue(get_order_list(JInt(limit.val), remote), "get_order_list")
               [] endpoint = <<"search">> ->
                    LET query == Get(query_params, "q", <<DefaultQuery>>)[1]
                    IN  SendValue(search_products(JStr(query), remote), "search_products")
               [] endpoint = <<"store">> ->
                    SendValue(get_store_info(remote), "get_store_info")
               [] OTHER -> Response(404, ErrorBody(<<"Endpoint not found">>), "", NoHandler)
        ELSE Response(404, ErrorBody(<<"Not found">>), "", NoHandler)

do_OPTIONS(request) == Response(200, PyNone, "", NoHandler)

\* what rfile.read(n) delivers of the body sent, as json.loads sees it: a body
\* cut short is no JSON document
read(body, n) == IF n >= body.size THEN body ELSE [body EXCEPT !.valid = FALSE]

\* the value sent under another key
ResultEnvelope_data(result) == PyDict([data |-> result])

\* {'result': result}
ResultEnvelope(result) == PyDict([result |-> result])

\* the data function returned r: do_POST writes 200 and {'result': r.val}; what
\* it raises is caught by `except Exception`
SendResult(r, handler) ==
    IF r.raised
    THEN [written |-> TRUE, status |-> 500, body |-> ErrorBody(<<"Server error: ", r.exc>>),
          handler |-> handler, returned |-> PyNone, calls |-> r.calls, caught |-> FALSE,
          escaped |-> "", tool_error |-> FALSE]
    ELSE Response(200, ResultEnvelope(r.val), handler, r)

ServerError(exc) == Response(500, ErrorBody(<<"Server error: ", exc>>), "", NoHandler)

do_POST(request, remote) ==
    IF request.path = <<"/mcp">>
    THEN IF "Content-Length" \notin DOMAIN request.headers
         THEN Escaped("TypeError", "", <<>>)
         ELSE LET content_length == int(request.headers["Content-Length"])
              IN  IF content_length.raised THEN Escaped(content_length.exc, "", <<>>)
                  ELSE LET post_data == read(request.body, content_length.val)
                           doc == post_data.doc
                           method == doc.map["method"]
                           params == Get(doc.map, "params", [is_dict |-> TRUE, map |-> EmptyMap])
                       IN  IF ~post_data.valid
                           THEN Response(400, ErrorBody(<<"Invalid JSON in request">>), "", NoHandler)
                           ELSE IF ~doc.is_dict \/ "method" \notin DOMAIN doc.map
                           THEN Response(400, ErrorBody(<<"Invalid MCP request format">>), "", NoHandler)
                           ELSE CASE method = "get_product_list" ->
                                       IF ~params.is_dict THEN ServerError("AttributeError")
                                       ELSE SendResult(get_product_list(
                                                Get(params.map, "limit", JInt(DefaultLimit)), remote),
                                                "get_product_list")
                                  [] method = "get_customer_list" ->
                                       IF ~params.is_dict THEN ServerError("AttributeError")
                                       ELSE SendResult(get_customer_list(
                                                Get(params.map, "limit", JInt(DefaultLimit)), remote),
                                                "get_customer_list")
                                  [] method = "get_order_list" ->
                                       IF ~params.is_dict THEN ServerError("AttributeError")
                                       ELSE SendResult(get_order_list(
                                                Get(params.map, "limit", JInt(DefaultLimit)), remote),
                                                "get_order_list")
                                  [] method = "search_products" ->
                                       IF ~params.is_dict THEN ServerError("AttributeError")
                                       ELSE SendResult(search_products(
                                                Get(params.map, "query", JStr(DefaultQuery)), remote),
                                                "search_products")
                                  [] method = "get_store_info" ->
                                       SendResult(get_store_info(remote), "get_store_info")
                                  [] OTHER ->
                                       Response(400, ErrorBody(<<"Unknown method: ", method>>),
                                                "", NoHandler)
    ELSE Response(404, ErrorBody(<<"Not found">>), "", NoHandler)

-----------------------------------------------------------------------------
(* shopify_mcp_fastmcp.py: the tools *)

\* R.find(id): the record with that id, or the call raises
find_by_id(records, id, remote) ==
    LET n == int(id)
        hits == {i \in 1..Len(records) : ~n.raised /\ records[i].id = n.val}
    IN  IF remote.fail THEN Raises("ConnectionError")
        ELSE IF hits = {} THEN Raises("ResourceNotFound")
        ELSE Returns(records[CHOOSE i \in hits : \A j \in hits : i <= j])

get_products(limit, remote) ==
    LET r == find(remote.products, limit, remote)
        calls == <<Call("Product.find", limit, r)>>
    IN  IF r.raised \/ \E i \in 1..Len(r.val) : r.val[i].absent \cap ProductAttrs # {}
        THEN Handled(PyList(<<>>), calls, TRUE)
        ELSE Handled(PyList([i \in 1..Len(r.val) |-> ProductDict(r.val[i])]), calls, FALSE)

get_product_details(product_id, remote) ==
    LET r == find_by_id(remote.products, product_id.str, remote)
        calls == <<Call("Product.find_id", product_id, r)>>
    IN  IF r.raised \/ r.val.absent \cap ProductAttrs # {}
        THEN Handled(PyDict(EmptyMap), calls, TRUE)
        ELSE Handled(PyDict(ProductDict(r.val)), calls, FALSE)

get_customers(limit, remote) ==
    LET r == find(remote.customers, limit, remote)
        calls == <<Call("Customer.find", limit, r)>>
    IN  IF r.raised \/ \E i \in 1..Len(r.val) : r.val[i].absent \cap CustomerAttrs # {}
        THEN Handled(PyList(<<>>), calls, TRUE)
        ELSE Handled(PyList([i \in 1..Len(r.val) |-> CustomerDict(r.val[i])]), calls, FALSE)

get_customer_details(customer_id, remote) ==
    LET r == find_by_id(remote.customers, customer_id.str, remote)
        calls == <<Call("Customer.find_id", customer_id, r)>>
    IN  IF r.raised \/ r.val.absent \cap CustomerAttrs # {}
        THEN Handled(PyDict(EmptyMap), calls, TRUE)
        ELSE Handled(PyDict(CustomerDict(r.val)), calls, FALSE)

get_orders(limit, remote) ==
    LET r == find(remote.orders, limit, remote)
        calls == <<Call("Order.find", limit, r)>>
    IN  IF r.raised \/ \E i \in 1..Len(r.val) : r.val[i].absent \cap OrderAttrs # {}
        THEN Handled(PyList(<<>>), calls, TRUE)
        ELSE Handled(PyList([i \in 1..Len(r.val) |-> OrderDict(r.val[i])]), calls, FALSE)

\* the loop of the tool's search_products: after appending a match,
\* `if len(matched_products) >= limit: break`
RECURSIVE SearchLoopLimit(_, _, _, _, _)
SearchLoopLimit(products, query, limit, k, matched) ==
    IF k > Len(products) THEN Returns(matched)
    ELSE LET m == Match(query, products[k])
             more == Append(matched, SearchDict(products[k]))
         IN  IF m = "raise" THEN Raises("AttributeError")
             ELSE IF m = "nomatch" THEN SearchLoopLimit(products, query, limit, k + 1, matched)
             ELSE IF products[k].absent \cap SearchAttrs # {} THEN Raises("AttributeError")
             ELSE IF Len(more) >= limit THEN Returns(more)
             ELSE SearchLoopLimit(products, query, limit, k + 1, more)

tool_search_products(query, limit, remote) ==
    LET r == find(remote.products, JInt(SearchPageSize), remote)
        calls == <<Call("Product.find", JInt(SearchPageSize), r)>>
    IN  IF r.raised THEN Handled(PyList(<<>>), calls, TRUE)
        ELSE LET l == SearchLoopLimit(r.val, lower(query.str), limit.int, 1, <<>>)
             IN  IF l.raised THEN Handled(PyList(<<>>), calls, TRUE)
                 ELSE Handled(PyList(l.val), calls, FALSE)

tool_get_store_info(remote) ==
    LET r == Shop_current(remote)
        calls == <<Call("Shop.current", NoArg, r)>>
    IN  IF r.raised THEN Handled(PyDict(EmptyMap), calls, TRUE)
        ELSE Handled(PyDict(ShopDict(r.val)), calls, FALSE)

\* the tools with get_orders left unregistered
ToolNames_without_orders ==
    {"get_products", "get_product_details", "get_customers", "get_customer_details",
     "search_products", "get_store_info"}

\* the functions decorated with @mcp.tool(), by the name each is registered under
ToolNames ==
    {"get_products", "get_product_details", "get_customers", "get_customer_details",
     "get_orders", "search_products", "get_store_info"}

\* the parameters each tool declares: name -> [type, required]
ToolSchema(name) ==
    CASE name \in {"get_products", "get_customers", "get_orders"} ->
            [limit |-> [type |-> "int", required |-> FALSE]]
      [] name = "get_product_details" -> [product_id |-> [type |-> "str", required |-> TRUE]]
      [] name = "get_customer_details" -> [customer_id |-> [type |-> "str", required |-> TRUE]]
      [] name = "search_products" ->
            [query |-> [type |-> "str", required |-> TRUE],
             limit |-> [type |-> "int", required |-> FALSE]]
      [] OTHER -> EmptyMap

\* the arguments are validated against the declared parameters before the
\* function runs: the first parameter that is missing though required, or whose
\* value has another type, is reported
BadParams(name, arguments) ==
    {k \in DOMAIN ToolSchema(name) :
        \/ k \notin DOMAIN arguments /\ ToolSchema(name)[k].required
        \/ k \in DOMAIN arguments /\ arguments[k].jt # ToolSchema(name)[k].type}

ToolResult(r, handler) ==
    [written |-> TRUE, status |-> 0, body |-> r.val, handler |-> handler,
     returned |-> r.val, calls |-> r.calls, caught |-> r.caught, escaped |-> "",
     tool_error |-> FALSE]

ToolError(msg) ==
    [written |-> TRUE, status |-> 0, body |-> ErrorBody(msg), handler |-> "",
     returned |-> PyNone, calls |-> <<>>, caught |-> FALSE, escaped |-> "",
     tool_error |-> TRUE]

\* one tool invocation arriving over stdio while mcp.run() serves
call_tool(request, remote) ==
    LET name == request.name
        arguments == request.arguments
        limit == Get(arguments, "limit", JInt(DefaultLimit))
    IN  IF name \notin ToolNames THEN ToolError(<<"Unknown tool: ", name>>)
        ELSE IF BadParams(name, arguments) # {}
        THEN ToolError(<<"Invalid parameters: ",
                         CHOOSE k \in BadParams(name, arguments) : TRUE>>)
        ELSE CASE name = "get_products" -> ToolResult(get_products(limit, remote), name)
               [] name = "get_product_details" ->
                    ToolResult(get_product_details(arguments["product_id"], remote), name)
               [] name = "get_customers" -> ToolResult(get_customers(limit, remote), name)
               [] name = "get_customer_details" ->
                    ToolResult(get_customer_details(arguments["customer_id"], remote), name)
               [] name = "get_orders" -> ToolResult(get_orders(limit, remote), name)
               [] name = "search_products" ->
                    ToolResult(tool_search_products(arguments["query"], limit, remote), name)
               [] name = "get_store_info" -> ToolResult(tool_get_store_info(remote), name)

-----------------------------------------------------------------------------
(* The requests *)

Pair(k, v) == [key |-> k, value |-> v]

LimitStrings == {<<"1">>, <<"2">>, <<"0">>, <<"-", "1">>, <<"a">>}
QueryStrings == {<<"a">>, <<"A", "B">>, <<"a", "b">>, <<"z">>}

RawQueries ==
    {<<>>}
    \cup {<<Pair("limit", l)>> : l \in LimitStrings}
    \cup {<<Pair("q", q)>> : q \in QueryStrings \cup {<<>>}}
    \cup {<<Pair("q", q), Pair("limit", l)>> : q \in {<<"a">>}, l \in {<<"1">>, <<"0">>}}

Endpoints == {"products", "customers", "orders", "search", "store"}

GetPaths ==
    {<<"/health">>, <<"/mcp">>, <<"/nope">>, <<ApiPrefix>>}
    \cup {<<ApiPrefix, e>> : e \in Endpoints \cup {"nope"}}
    \cup {<<ApiPrefix, ApiPrefix, e>> : e \in {"products", "nope"}}

GetRequests == {[verb |-> "GET", path |-> p, query |-> q] : p \in GetPaths, q \in RawQueries}

OptionsRequests == {[verb |-> "OPTIONS", path |-> p] : p \in {<<"/mcp">>, <<"/nope">>}}

JsonParams(m) == [is_dict |-> TRUE, map |-> m]
NotAMapping == [is_dict |-> FALSE, map |-> EmptyMap]

PostParams ==
    {JsonParams(EmptyMap), NotAMapping}
    \cup {JsonParams([limit |-> l]) : l \in {JInt(1), JInt(2), JInt(0), JStr(<<"a">>)}}
    \cup {JsonParams([query |-> q]) : q \in {JStr(x) : x \in QueryStrings} \cup {JInt(5)}}

PostMethods ==
    {"get_product_list", "get_customer_list", "get_order_list", "search_products",
     "get_store_info"}

\* the method names of the specification's registry
SpecMethods ==
    {"list_products", "get_product", "list_customers", "get_customer", "list_orders",
     "search_products", "get_store_info"}

JsonDocs ==
    {[is_dict |-> FALSE, map |-> EmptyMap], [is_dict |-> TRUE, map |-> EmptyMap],
     [is_dict |-> TRUE, map |-> [params |-> JsonParams(EmptyMap)]]}
    \cup {[is_dict |-> TRUE, map |-> [method |-> m]] : m \in PostMethods \cup SpecMethods \cup {"nope"}}
    \cup {[is_dict |-> TRUE, map |-> [method |-> m, params |-> q]] :
             m \in PostMethods \cup {"list_products", "nope"}, q \in PostParams}

Bodies ==
    {[valid |-> TRUE, size |-> 7, doc |-> d] : d \in JsonDocs}
    \cup {[valid |-> FALSE, size |-> 7, doc |-> [is_dict |-> FALSE, map |-> EmptyMap]]}

ContentLength(v) == "Content-Length" :> v

\* a body of each kind, for the requests whose headers or path are the point
SomeBodies ==
    {b \in Bodies : \/ ~b.valid
                    \/ b.doc.map = [method |-> "get_store_info"]
                    \/ b.doc.map = [method |-> "nope"]}

PostRequests ==
    {[verb |-> "POST", path |-> <<"/mcp">>, headers |-> ContentLength(<<"7">>), body |-> b] :
        b \in Bodies}
    \cup {[verb |-> "POST", path |-> <<"/mcp">>, headers |-> h, body |-> b] :
            h \in {EmptyMap, ContentLength(<<"x">>), ContentLength(<<"0">>)}, b \in SomeBodies}
    \cup {[verb |-> "POST", path |-> <<"/nope">>, headers |-> ContentLength(<<"7">>), body |-> b] :
            b \in SomeBodies}

ToolArguments(name) ==
    CASE name \in {"get_products", "get_customers", "get_orders"} ->
            {EmptyMap} \cup {[limit |-> l] : l \in {JInt(1), JInt(2), JInt(0), JStr(<<"a">>)}}
      [] name = "get_product_details" ->
            {EmptyMap} \cup {[product_id |-> i] : i \in {JStr(<<"1">>), JStr(<<"5">>), JStr(<<"9">>), JInt(1)}}
      [] name = "get_customer_details" ->
            {EmptyMap} \cup {[customer_id |-> i] : i \in {JStr(<<"2", "1">>), JStr(<<"2", "3">>), JStr(<<"9">>)}}
      [] name = "search_products" ->
            {EmptyMap, [limit |-> JInt(1)], [query |-> JInt(5)]}
            \cup {[query |-> JStr(q)] : q \in QueryStrings \cup {<<>>}}
            \cup {[query |-> JStr(q), limit |-> l] :
                     q \in QueryStrings \cup {<<>>},
                     l \in {JInt(-1), JInt(0), JInt(1), JInt(2), JStr(<<"a">>)}}
      [] OTHER -> {EmptyMap}

\* the tool names a client may send: the seven of the decorators, the seven of
\* the specification's registry, and one that is in neither
RequestedTools ==
    {"get_products", "get_product_details", "get_customers", "get_customer_details",
     "get_orders", "search_products", "get_store_info", "nope"} \cup SpecMethods

ToolRequests ==
    UNION {{[verb |-> "TOOL", name |-> n, arguments |-> a] : a \in ToolArguments(n)} :
              n \in RequestedTools}

-----------------------------------------------------------------------------
(* Startup: __main__, run_server() and init_shopify_api() of both scripts   *)

\* os.environ.get(name) of a variable that is not set
Unset == "<unset>"

\* `if value:` for None, '' and a non-empty str
Truthy(v) == v \notin {Unset, ""}

Env(shop_url, access_token, api_key, password, api_version) ==
    [SHOPIFY_SHOP_URL |-> shop_url, SHOPIFY_ACCESS_TOKEN |-> access_token,
     SHOPIFY_API_KEY |-> api_key, SHOPIFY_PASSWORD |-> password,
     SHOPIFY_API_VERSION |-> api_version]

\* a store URL and an access token, nothing else
TokenEnv == Env("shop.myshopify.com", "token", Unset, Unset, Unset)

Environs ==
    {Env(Unset, Unset, Unset, Unset, Unset),
     Env("shop.myshopify.com", Unset, Unset, Unset, Unset),
     TokenEnv,
     Env("shop.myshopify.com", Unset, "key", Unset, Unset),
     Env("shop.myshopify.com", Unset, Unset, "password", Unset),
     Env("shop.myshopify.com", Unset, "key", "password", Unset),
     Env(Unset, "token", "key", "password", Unset),
     Env("", "token", Unset, Unset, Unset),
     Env("shop.myshopify.com", "", Unset, Unset, Unset),
     Env("shop.myshopify.com", "", "key", "password", Unset),
     Env("shop.myshopify.com", "token", Unset, Unset, "bogus")}

\* sys.argv[1:]: no port, a port, something that is no number
Args == {<<>>, <<(<<"8", "0", "8", "0">>)>>, <<(<<"x">>)>>}

DefaultApiVersion == "2023-01"

\* the API versions shopify.Session() accepts; for another it raises
ApiVersions == {DefaultApiVersion}

\* init_shopify_api() taking the API key or the password alone for credentials
init_shopify_api_key_or_password(s, env, accepted) ==
    LET shop == Shop_current([fail |-> ~accepted])
    IN  IF ~Truthy(env.SHOPIFY_SHOP_URL) THEN [ok |-> FALSE, calls |-> <<>>]
        ELSE IF ~(\/ Truthy(env.SHOPIFY_ACCESS_TOKEN)
                  \/ Truthy(env.SHOPIFY_API_KEY) \/ Truthy(env.SHOPIFY_PASSWORD))
        THEN [ok |-> FALSE, calls |-> <<>>]
        ELSE IF env.SHOPIFY_API_VERSION \notin {Unset} \cup ApiVersions
        THEN [ok |-> FALSE, calls |-> <<>>]
        ELSE IF s = "stdio"
        THEN [ok |-> ~shop.raised, calls |-> <<Call("Shop.current", NoArg, shop)>>]
        ELSE [ok |-> TRUE, calls |-> <<>>]

\* init_shopify_api() of the script `s`: [ok, calls].  Only the one of
\* shopify_mcp_fastmcp.py calls the platform (shopify.Shop.current()), and that
\* call raises when the platform rejects the credentials.
init_shopify_api(s, env, accepted) ==
    LET shop_url == env.SHOPIFY_SHOP_URL
        api_key == env.SHOPIFY_API_KEY
        password == env.SHOPIFY_PASSWORD
        access_token == env.SHOPIFY_ACCESS_TOKEN
        api_version == IF env.SHOPIFY_API_VERSION = Unset THEN DefaultApiVersion
                       ELSE env.SHOPIFY_API_VERSION
        shop == Shop_current([fail |-> ~accepted])
    IN  IF ~Truthy(shop_url) THEN [ok |-> FALSE, calls |-> <<>>]
        ELSE IF ~(Truthy(access_token) \/ (Truthy(api_key) /\ Truthy(password)))
        THEN [ok |-> FALSE, calls |-> <<>>]
        ELSE IF api_version \notin ApiVersions THEN [ok |-> FALSE, calls |-> <<>>]
        ELSE IF s = "stdio"
        THEN [ok |-> ~shop.raised, calls |-> <<Call("Shop.current", NoArg, shop)>>]
        ELSE [ok |-> TRUE, calls |-> <<>>]

-----------------------------------------------------------------------------
(* The serving loops: httpd.serve_forever() and mcp.run(transport='stdio')  *)
(* take one request, run its handler to the end, and wait for the next.     *)

NoRequest == [verb |-> "none"]
NoRemote == [fail |-> FALSE, hang |-> FALSE] @@ NoRecords
NoOutcome ==
    [written |-> FALSE, status |-> 0, body |-> PyNone, handler |-> "", returned |-> PyNone,
     calls |-> <<>>, caught |-> FALSE, escaped |-> "", tool_error |-> FALSE]

\* the process is started; a port is given to shopify_mcp.py only, and the
\* ports are tried with one environment
Init ==
    /\ surface \in {"http", "stdio"}
    /\ environ \in Environs
    /\ argv \in Args
    /\ argv # <<>> => (surface = "http" /\ environ = TokenEnv)
    /\ accepts \in BOOLEAN
    /\ pc = "start"
    /\ initialized = FALSE
    /\ startup_calls = <<>>
    /\ listening = FALSE
    /\ exit_code = "none"
    /\ req = NoRequest
    /\ upstream = NoRemote
    /\ out = NoOutcome
    /\ failedBefore = FALSE

\* __main__ up to the call of init_shopify_api(): shopify_mcp.py parses its port
Main ==
    /\ pc = "start"
    /\ IF surface = "http" /\ argv # <<>> /\ int(argv[1]).raised
       THEN pc' = "exited" /\ exit_code' = "1"
       ELSE pc' = "init" /\ exit_code' = exit_code
    /\ UNCHANGED <<config, initialized, startup_calls, listening, req, upstream, out, failedBefore>>

InitShopifyApi ==
    /\ pc = "init"
    /\ pc' = "initialized"
    /\ initialized' = init_shopify_api(surface, environ, accepts).ok
    /\ startup_calls' = init_shopify_api(surface, environ, accepts).calls
    /\ UNCHANGED <<config, listening, exit_code, req, upstream, out, failedBefore>>

\* `if not init_shopify_api(): ... sys.exit(1)`
ExitFailure ==
    /\ pc = "initialized" /\ ~initialized
    /\ pc' = "exited" /\ exit_code' = "1"
    /\ UNCHANGED <<config, initialized, startup_calls, listening, req, upstream, out, failedBefore>>

\* HTTPServer(server_address, MCPRequestHandler) and serve_forever(), or mcp.run()
Listen ==
    /\ pc = "initialized" /\ initialized
    /\ pc' = "accept" /\ listening' = TRUE
    /\ UNCHANGED <<config, initialized, startup_calls, exit_code, req, upstream, out, failedBefore>>

\* Ctrl+C between two requests (server_close(), sys.exit(0)), or the end of
\* stdin, after which mcp.run() returns and the script ends
Shutdown ==
    /\ pc = "accept"
    /\ pc' = "exited" /\ listening' = FALSE /\ exit_code' = "0"
    /\ UNCHANGED <<config, initialized, startup_calls, req, upstream, out, failedBefore>>

\* a loop that takes a request while a handler is blocked in its call
Idle_or_blocked == pc \in {"accept", "handling"}

\* the serving loop takes a request only when the handler of the one before
\* has returned: HTTPServer has no threads, mcp.run() runs the tools, which
\* never await, on its one event loop
Idle == pc = "accept"

\* a platform that rejects the credentials answers no call
Answers(rem) == accepts \/ rem.fail

\* what a request gets once its handler has run to the end
Serve(request, rem) ==
    CASE request.verb = "GET" -> do_GET(request, rem)
      [] request.verb = "POST" -> do_POST(request, rem)
      [] request.verb = "OPTIONS" -> do_OPTIONS(request)
      [] request.verb = "TOOL" -> call_tool(request, rem)

\* the request is taken and routed.  A request that no data function serves is
\* answered at once (o is its outcome); otherwise the data function is entered
\* and blocks in its call of the Remote Data Client.
Handle(request, rem, o) ==
    /\ req' = request
    /\ IF o.calls = <<>>
       THEN pc' = "finish" /\ out' = o /\ upstream' = NoRemote
       ELSE pc' = "handling" /\ out' = NoOutcome /\ upstream' = rem
    /\ UNCHANGED <<config, started, failedBefore>>

GET ==
    /\ surface = "http" /\ Idle
    /\ \E request \in GetRequests, rem \in Remotes :
          Answers(rem) /\ Handle(request, rem, do_GET(request, rem))

POST ==
    /\ surface = "http" /\ Idle
    /\ \E request \in PostRequests, rem \in Remotes :
          Answers(rem) /\ Handle(request, rem, do_POST(request, rem))

OPTIONS ==
    /\ surface = "http" /\ Idle
    /\ \E request \in OptionsRequests : Handle(request, NoRemote, do_OPTIONS(request))

CallTool ==
    /\ surface = "stdio" /\ Idle
    /\ \E request \in ToolRequests, rem \in Remotes :
          Answers(rem) /\ Handle(request, rem, call_tool(request, rem))

\* the client's call returns or raises, and the handler runs to its end
ClientReturns ==
    /\ pc = "handling" /\ ~upstream.hang
    /\ pc' = "finish"
    /\ out' = Serve(req, upstream)
    /\ UNCHANGED <<config, started, req, upstream, failedBefore>>

ClientRaised(o) == \E i \in 1..Len(o.calls) : o.calls[i].raised

\* the loop comes back for the next request, whatever became of this one: an
\* exception that left the handler method is reported by the server's
\* handle_error and the connection is closed
NextRequest ==
    /\ pc = "finish"
    /\ pc' = "accept"
    /\ req' = NoRequest
    /\ upstream' = NoRemote
    /\ out' = NoOutcome
    /\ failedBefore' = (failedBefore \/ ClientRaised(out))
    /\ UNCHANGED <<config, started>>

Next ==
    \/ Main \/ InitShopifyApi \/ ExitFailure \/ Listen \/ Shutdown
    \/ GET \/ POST \/ OPTIONS \/ CallTool \/ ClientReturns \/ NextRequest

Spec == Init /\ [][Next]_vars

-----------------------------------------------------------------------------
(* What the formulas below read off a state *)

Finished == pc = "finish"

IsError(body) == body.py = "dict" /\ DOMAIN body.map = {"error"}

PostToMcp == Finished /\ req.verb = "POST" /\ req.path = <<"/mcp">>

\* the JSON document of the body sent names a method
NamesMethod == req.body.valid /\ req.body.doc.is_dict /\ "method" \in DOMAIN req.body.doc.map

PostMethod == req.body.doc.map["method"]

GetApi == Finished /\ req.verb = "GET" /\ startswith_api(req.path)

\* what follows the '/api/' prefix of the path
SubPath == Tail(req.path)

ToolCall == Finished /\ req.verb = "TOOL"

\* the request reached Succeeded: a data function was called and its value sent
Succeeded ==
    /\ Finished /\ out.written /\ out.handler # ""
    /\ IF req.verb = "TOOL" THEN ~out.tool_error ELSE out.status = 200

-----------------------------------------------------------------------------
(* C1 *)

\* C1: a request that names a method or endpoint with no registry entry (POST
\* /mcp with an unregistered method, GET /api/<sub-path> with an unregistered
\* sub-path) is answered with a 4xx error body and makes no client call.
C1_UnregisteredIsClientError ==
    (\/ PostToMcp /\ NamesMethod /\ PostMethod \notin PostMethods
     \/ GetApi /\ SubPath \notin {<<e>> : e \in Endpoints})
    => /\ out.written /\ out.status \in 400..499 /\ IsError(out.body)
       /\ out.calls = <<>>

-----------------------------------------------------------------------------
(* C2 *)

\* C2: when the client raises during a request, that request alone is affected:
\* it is answered, the process waits for the next request, and a later request
\* whose client calls do not raise gets what it would have got in a process
\* where nothing failed before (Serve of the same request met by the same
\* remote platform), and succeeds if a data function serves it.
C2_UpstreamFailureIsPerRequest ==
    Finished =>
        /\ ClientRaised(out) => out.written /\ out.escaped = "" /\ ENABLED NextRequest
        /\ (failedBefore /\ ~ClientRaised(out)) =>
              /\ out = Serve(req, upstream)
              /\ (out.handler # "" => Succeeded)

C2_Witness ==
    /\ Finished /\ failedBefore /\ ~ClientRaised(out)
    /\ Succeeded /\ out.returned.py = "list" /\ out.returned.items # <<>>

-----------------------------------------------------------------------------
(* C3 *)

\* the client raised, or the except clause of the data function ran
HandlerFailed == Finished /\ (ClientRaised(out) \/ out.caught)

\* C3 as stated: when the client or a transformer raises while a dispatched
\* handler runs, the request ends Failed: the response carries {error: message}
\* with a non-success status, never a result payload.
C3_UpstreamErrorIsFailed ==
    HandlerFailed =>
        /\ out.written /\ IsError(out.body)
        /\ (out.tool_error \/ out.status >= 400)

\* C3 as amended: when the client or a transformer raises while a dispatched
\* handler runs, the data function catches it and returns its empty fallback
\* ([] or {}), which is sent as an ordinary success: 200 with the value (inside
\* {result: ...} on POST /mcp), or the tool's result.
C3_UpstreamErrorIsEmptyResult ==
    HandlerFailed =>
        /\ out.caught /\ out.written /\ out.escaped = "" /\ ~out.tool_error
        /\ out.returned \in {PyList(<<>>), PyDict(EmptyMap)}
        /\ CASE req.verb = "POST" ->
                    out.status = 200 /\ out.body = PyDict([result |-> out.returned])
             [] req.verb = "GET" -> out.status = 200 /\ out.body = out.returned
             [] OTHER -> out.body = out.returned

C3_Witness ==
    /\ HandlerFailed /\ ~ClientRaised(out)
    /\ out.handler = "get_order_list" /\ Len(upstream.orders) = 2
    /\ upstream.orders[1].absent = {}

-----------------------------------------------------------------------------
(* C4 *)

\* C4: every HTTP request, whatever its path, query string, headers and body,
\* gets exactly one response, with status 200, 400, 404 or 500 and a JSON body;
\* no exception leaves the handler before a response was written.
C4_EveryRequestAnswered ==
    (Finished /\ surface = "http") =>
        /\ out.written /\ out.escaped = ""
        /\ out.status \in {200, 400, 404, 500}
        /\ out.body.py \in {"list", "dict"}

-----------------------------------------------------------------------------
(* C5 *)

ListNames == {"get_product_list", "get_customer_list", "get_order_list",
              "get_products", "get_customers", "get_orders"}

\* the parameters of the request that are missing though required, or of the
\* wrong type, by the registry's schema (limit: int, default 10; query: str,
\* required; id: str, required)
Missing(args, k) == k \notin DOMAIN args
WrongType(args, k, t) == k \in DOMAIN args /\ args[k].jt # t

Offending ==
    CASE GetApi /\ SubPath \in {<<e>> : e \in Endpoints} ->
            LET q == parse_qs(req.query)
            IN  {k \in {"q"} : SubPath = <<"search">> /\ "q" \notin DOMAIN q}
                \cup {k \in {"limit"} : /\ SubPath \in {<<"products">>, <<"customers">>, <<"orders">>}
                                        /\ "limit" \in DOMAIN q /\ int(q["limit"][1]).raised}
      [] PostToMcp /\ NamesMethod /\ PostMethod \in PostMethods ->
            LET params == Get(req.body.doc.map, "params", JsonParams(EmptyMap))
            IN  IF ~params.is_dict THEN {}
                ELSE {k \in {"query"} : /\ PostMethod = "search_products"
                                        /\ Missing(params.map, k) \/ WrongType(params.map, k, "str")}
                     \cup {k \in {"limit"} : /\ PostMethod \in ListNames
                                             /\ WrongType(params.map, k, "int")}
      [] ToolCall /\ req.name \in {"get_products", "get_product_details", "get_customers",
                                   "get_customer_details", "get_orders", "search_products",
                                   "get_store_info"} ->
            {k \in {"query"} : /\ req.name = "search_products"
                               /\ Missing(req.arguments, k) \/ WrongType(req.arguments, k, "str")}
            \cup {k \in {"limit"} : /\ req.name \in ListNames \cup {"search_products"}
                                    /\ WrongType(req.arguments, k, "int")}
            \cup {k \in {"product_id"} : /\ req.name = "get_product_details"
                                         /\ Missing(req.arguments, k) \/ WrongType(req.arguments, k, "str")}
            \cup {k \in {"customer_id"} : /\ req.name = "get_customer_details"
                                          /\ Missing(req.arguments, k) \/ WrongType(req.arguments, k, "str")}
      [] OTHER -> {}

\* the error body names parameter k
ErrorNames(body, k) == \E i \in DOMAIN body.map.error : body.map.error[i] = k

\* C5: a request for a registered method that omits a required parameter or
\* gives one of the wrong type is rejected with an error that names the
\* parameter, and no handler runs (no client call).
C5_InvalidParametersRejected ==
    (Finished /\ Offending # {}) =>
        /\ out.written /\ IsError(out.body)
        /\ \E k \in Offending : ErrorNames(out.body, k)
        /\ out.handler = "" /\ out.calls = <<>>

-----------------------------------------------------------------------------
(* C6 *)

\* the Content-Length header lets do_POST read the whole body
BodyReadable ==
    /\ "Content-Length" \in DOMAIN req.headers
    /\ ~int(req.headers["Content-Length"]).raised
    /\ int(req.headers["Content-Length"]).val >= req.body.size

\* a POST /mcp whose JSON document names method m with well-typed parameters
WellTypedPost(m) ==
    /\ PostToMcp /\ BodyReadable /\ NamesMethod /\ PostMethod = m
    /\ LET params == Get(req.body.doc.map, "params", JsonParams(EmptyMap))
       IN  /\ params.is_dict
           /\ ~WrongType(params.map, "limit", "int")
           /\ ~WrongType(params.map, "query", "str")
           /\ (m = "search_products" => ~Missing(params.map, "query"))

\* a tool call of name n with well-typed arguments
WellTypedTool(n) ==
    /\ ToolCall /\ req.name = n
    /\ ~WrongType(req.arguments, "limit", "int")
    /\ ~WrongType(req.arguments, "query", "str")
    /\ ~WrongType(req.arguments, "product_id", "str")
    /\ ~WrongType(req.arguments, "customer_id", "str")
    /\ (n = "search_products" => ~Missing(req.arguments, "query"))
    /\ (n \in {"get_product", "get_product_details"} => ~Missing(req.arguments, "product_id"))
    /\ (n \in {"get_customer", "get_customer_details"} => ~Missing(req.arguments, "customer_id"))

\* C6 as stated: each of list_products, get_product, list_customers,
\* get_customer, list_orders, search_products, get_store_info, with well-typed
\* parameters and a client that does not fail, is routed to a handler and
\* succeeds on POST /mcp and on the tool surface.
C6_SpecNamesSucceed ==
    \A m \in SpecMethods :
        ((WellTypedPost(m) \/ WellTypedTool(m)) /\ ~ClientRaised(out)) => Succeeded

\* C6 as amended: the names each surface registers are routed to their handler
\* and succeed: get_product_list, get_customer_list, get_order_list,
\* search_products, get_store_info on POST /mcp; get_products,
\* get_product_details, get_customers, get_customer_details, get_orders,
\* search_products, get_store_info on the tool surface.
C6_RegisteredNamesSucceed ==
    /\ \A m \in {"get_product_list", "get_customer_list", "get_order_list",
                 "search_products", "get_store_info"} :
          (WellTypedPost(m) /\ ~ClientRaised(out)) => (Succeeded /\ out.handler = m)
    /\ \A n \in {"get_products", "get_product_details", "get_customers",
                 "get_customer_details", "get_orders", "search_products",
                 "get_store_info"} :
          (WellTypedTool(n) /\ ~ClientRaised(out)) => (Succeeded /\ out.handler = n)

C6_Witness ==
    /\ WellTypedTool("get_orders") /\ ~ClientRaised(out)
    /\ Succeeded /\ out.returned.items # <<>>

-----------------------------------------------------------------------------
(* C7 *)

\* the parameters of the GET request as a structured call carries them: what
\* the query string gives as text, typed
TypedLimit(q) ==
    IF "limit" \notin DOMAIN q THEN EmptyMap
    ELSE IF int(q["limit"][1]).raised THEN [limit |-> JStr(q["limit"][1])]
    ELSE [limit |-> JInt(int(q["limit"][1]).val)]

TypedQuery(q) == IF "q" \notin DOMAIN q THEN EmptyMap ELSE [query |-> JStr(q["q"][1])]

TypedArgs(request) ==
    LET q == parse_qs(request.query)
        e == Tail(request.path)
    IN  CASE e = <<"search">> -> TypedQuery(q) @@ TypedLimit(q)
          [] e = <<"store">> -> EmptyMap
          [] OTHER -> TypedLimit(q)

PostName(e) ==
    CASE e = <<"products">> -> "get_product_list"
      [] e = <<"customers">> -> "get_customer_list"
      [] e = <<"orders">> -> "get_order_list"
      [] e = <<"search">> -> "search_products"
      [] e = <<"store">> -> "get_store_info"

ToolName(e) ==
    CASE e = <<"products">> -> "get_products"
      [] e = <<"customers">> -> "get_customers"
      [] e = <<"orders">> -> "get_orders"
      [] e = <<"search">> -> "search_products"
      [] e = <<"store">> -> "get_store_info"

PostCounterpart(request) ==
    [verb |-> "POST", path |-> <<"/mcp">>, headers |-> ContentLength(<<"7">>),
     body |-> [valid |-> TRUE, size |-> 7,
               doc |-> [is_dict |-> TRUE,
                        map |-> [method |-> PostName(Tail(request.path)),
                                 params |-> JsonParams(TypedArgs(request))]]]]

ToolCounterpart(request) ==
    [verb |-> "TOOL", name |-> ToolName(Tail(request.path)), arguments |-> TypedArgs(request)]

OutcomeOk(o, verb) ==
    /\ o.written /\ o.handler # ""
    /\ IF verb = "TOOL" THEN ~o.tool_error ELSE o.status = 200

\* the same result value on success, or failure on both sides
SameOutcome(a, averb, b, bverb) ==
    IF OutcomeOk(a, averb) THEN OutcomeOk(b, bverb) /\ a.returned = b.returned
    ELSE ~OutcomeOk(b, bverb)

\* C7: a method invoked through the query string and through the structured
\* parameter mapping, with the same parameters, has the same outcome: the same
\* result on success, an error on both sides otherwise.
C7_SameOutcomeOnBothCallSites ==
    (GetApi /\ SubPath \in {<<e>> : e \in Endpoints}) =>
        /\ SameOutcome(out, "GET", do_POST(PostCounterpart(req), upstream), "POST")
        /\ SameOutcome(out, "GET", call_tool(ToolCounterpart(req), upstream), "TOOL")

-----------------------------------------------------------------------------
(* C8 *)

\* C8: a POST /mcp whose handler returned is answered 200 with exactly
\* {result: value}; a GET /api/... whose handler returned is answered 200 with
\* the value itself.
C8_SuccessEnvelope ==
    (Finished /\ out.handler # "" /\ out.returned # PyNone) =>
        /\ req.verb = "POST" =>
              out.written /\ out.status = 200 /\ out.body = PyDict([result |-> out.returned])
        /\ req.verb = "GET" =>
              out.written /\ out.status = 200 /\ out.body = out.returned

C8_Witness ==
    /\ Finished /\ req.verb = "POST" /\ out.handler = "search_products"
    /\ out.returned.items # <<>>

-----------------------------------------------------------------------------
(* C9 *)

\* do_POST raises while it handles the request, outside the three 400 cases
UnexpectedFailure ==
    \/ ~BodyReadable /\ (\/ "Content-Length" \notin DOMAIN req.headers
                         \/ int(req.headers["Content-Length"]).raised)
    \/ /\ BodyReadable /\ NamesMethod
       /\ PostMethod \in PostMethods \ {"get_store_info"}
       /\ "params" \in DOMAIN req.body.doc.map /\ ~req.body.doc.map["params"].is_dict

\* C9: on POST /mcp a body that is no JSON, a document that is no object or has
\* no 'method', and an unknown method are answered 400 without a handler being
\* invoked; any other unexpected failure is answered 500 with an error that
\* begins 'Server error:'.
C9_PostErrorStatuses ==
    PostToMcp =>
        /\ (\/ ~req.body.valid
            \/ ~NamesMethod
            \/ PostMethod \notin PostMethods) => out.status = 400 /\ out.handler = ""
        /\ UnexpectedFailure =>
              /\ out.written /\ out.status = 500 /\ IsError(out.body)
              /\ out.body.map.error[1] = "Server error: "

-----------------------------------------------------------------------------
(* C10 *)

Max(a, b) == IF a > b THEN a ELSE b

\* the products of the working set that match the query, in its order
Matching(products, query) ==
    SelectSeq(products, LAMBDA p : Match(lower(query), p) = "match")

\* C10: the tool's search_products(query, limit) returns at most `limit`
\* products for every integer limit, 0 and negative included: exactly the first
\* `limit` matching products of the working set.
C10_AtMostLimit ==
    (/\ ToolCall /\ req.name = "search_products" /\ out.handler = "search_products"
     /\ ~out.caught) =>
        LET limit == Get(req.arguments, "limit", JInt(DefaultLimit)).int
            first == Take(Matching(upstream.products, req.arguments["query"].str), Max(limit, 0))
        IN  /\ Len(out.returned.items) <= Max(limit, 0)
            /\ out.returned.items = [i \in 1..Len(first) |-> SearchDict(first[i])]

-----------------------------------------------------------------------------
(* C11 *)

\* a search handler ran to its end without its except clause
SearchDone == Finished /\ out.handler = "search_products" /\ ~out.caught

\* the query the caller gave, as text
SearchQuery ==
    CASE req.verb = "GET" -> Get(parse_qs(req.query), "q", <<(<<>>)>>)[1]
      [] req.verb = "POST" ->
            Get(Get(req.body.doc.map, "params", JsonParams(EmptyMap)).map, "query", JStr(<<>>)).str
      [] OTHER -> req.arguments["query"].str

\* the query, compared case-insensitively, is a substring of one of the four
\* fields of p taken by itself
FieldMatches(q, p) ==
    \E f \in {"title", "vendor", "product_type", "tags"} :
        p[f] # NoneStr /\ In(lower(q), lower(p[f]))

Ids(s) == [i \in 1..Len(s) |-> s[i].id]

\* C11: GET /api/search makes exactly one client call, Product.find(limit=50),
\* and returns every product of that working set that matches the query, each
\* once per occurrence and in the working set's order, and no other product.
C11_SearchFiltersWorkingSet ==
    (SearchDone /\ req.verb = "GET") =>
        LET ws == upstream.products
        IN  /\ Len(out.calls) = 1
            /\ out.calls[1].op = "Product.find" /\ out.calls[1].arg = JInt(50)
            /\ Ids(out.returned.items)
                  = Ids(SelectSeq(ws, LAMBDA p : FieldMatches(SearchQuery, p)))

C11_Witness ==
    /\ SearchDone /\ req.verb = "GET" /\ "limit" \in DOMAIN parse_qs(req.query)
    /\ Ids(out.returned.items) = <<2, 1>>

-----------------------------------------------------------------------------
(* C12 *)

\* the tool's limit does not cut the result short
NotCut ==
    req.verb = "TOOL" =>
        Get(req.arguments, "limit", JInt(DefaultLimit)).int > Len(out.returned.items)

\* C12: on every path of search_products, a product of the working set whose
\* title, vendor, product_type or tags contains the query, letter case ignored,
\* is in the result; a query found only in tags is enough.
C12_AnyFieldMatches ==
    (SearchDone /\ NotCut) =>
        \A i \in 1..Len(upstream.products) :
            FieldMatches(SearchQuery, upstream.products[i]) =>
                \E k \in 1..Len(out.returned.items) :
                    out.returned.items[k].id = upstream.products[i].id

\* the query "ab" meets the tags "AB" of a product whose other fields lack it
C12_Witness ==
    /\ SearchDone /\ NotCut /\ req.verb = "TOOL" /\ SearchQuery = <<"a", "b">>
    /\ Len(upstream.products) = 2 /\ upstream.products[2] = ProductTagged
    /\ \A f \in {"title", "vendor", "product_type"} :
          ~In(<<"a", "b">>, lower(ProductTagged[f]))
    /\ out.returned.items[Len(out.returned.items)].id = ProductTagged.id

-----------------------------------------------------------------------------
(* C13 *)

ProductLists == {"get_product_list", "get_products"}
CustomerLists == {"get_customer_list", "get_customers"}
OrderLists == {"get_order_list", "get_orders"}

\* the parameters the request carries, typed
RequestArgs ==
    CASE req.verb = "GET" -> TypedArgs(req)
      [] req.verb = "POST" -> Get(req.body.doc.map, "params", JsonParams(EmptyMap)).map
      [] OTHER -> req.arguments

RequestLimit == Get(RequestArgs, "limit", JInt(10))

\* the records of the resource type the handler lists
Listed ==
    CASE out.handler \in ProductLists -> upstream.products
      [] out.handler \in CustomerLists -> upstream.customers
      [] out.handler \in OrderLists -> upstream.orders

\* a list handler ran to its end without its except clause, for a limit to
\* which the client answers with the first min(limit, N) records
ListDone ==
    /\ Finished /\ out.handler \in ProductLists \cup CustomerLists \cup OrderLists
    /\ ~out.caught /\ RequestLimit.jt = "int" /\ RequestLimit.int >= 1

Cities(s) == [i \in 1..Len(s) |-> s[i].city]

\* C13: a list handler called with limit L on a store of N records returns
\* exactly min(L, N) entries, entry k made from record k, and the variants,
\* images, addresses and line items of entry k are those of record k and no
\* other, in the order the client delivered them.
C13_ListKeepsOrderAndOwnership ==
    ListDone =>
        LET items == out.returned.items
            n == Min(RequestLimit.int, Len(Listed))
        IN  /\ Len(items) = n
            /\ \A k \in 1..n :
                  /\ items[k].id = Listed[k].id
                  /\ out.handler \in ProductLists =>
                        /\ Ids(items[k].variants) = Ids(Listed[k].variants)
                        /\ Ids(items[k].images) = Ids(Listed[k].images)
                  /\ out.handler \in CustomerLists =>
                        Cities(items[k].addresses) = Cities(Listed[k].addresses)
                  /\ out.handler \in OrderLists =>
                        Ids(items[k].line_items) = Ids(Listed[k].line_items)

\* limit=1 on a store of two products, the first with two variants and two images
C13_Witness ==
    /\ ListDone /\ req.verb = "GET" /\ RequestLimit.int = 1
    /\ upstream.products = <<ProductAlpha, ProductSplit>>
    /\ Len(out.returned.items) = 1
    /\ Ids(out.returned.items[1].images) = <<101, 102>>

-----------------------------------------------------------------------------
(* C14 *)

\* the attributes whose absence the transformers guard with hasattr()
Guarded ==
    CASE out.handler \in CustomerLists -> {"addresses"}
      [] out.handler \in OrderLists -> {"customer", "shipping_address"}
      [] OTHER -> {}

\* the nested-collection keys of the entries a handler produces
NestedKeys ==
    CASE out.handler \in ProductLists \cup {"get_product_details", "search_products"} ->
            {"variants", "images"}
      [] out.handler \in CustomerLists \cup {"get_customer_details"} -> {"addresses"}
      [] out.handler \in OrderLists -> {"customer", "shipping_address", "line_items"}
      [] OTHER -> {}

\* the entries of the value a handler returned
Entries ==
    IF out.returned.py = "list" THEN out.returned.items
    ELSE IF out.returned.py = "dict" /\ out.returned.map # EmptyMap /\ NestedKeys # {}
    THEN <<out.returned.map>>
    ELSE <<>>

\* C14: every entry a handler returns has every nested-collection key of its
\* type; a record whose collection is empty, or that lacks addresses, customer
\* or shipping address, is transformed (it does not fail the list) and yields
\* [] for the collection and {} for the sub-record.
C14_NestedKeysAlwaysPresent ==
    (Finished /\ out.handler # "") =>
        /\ \A k \in 1..Len(Entries) : NestedKeys \subseteq DOMAIN Entries[k]
        /\ (/\ out.handler \in ProductLists \cup CustomerLists \cup OrderLists
            /\ ~ClientRaised(out)
            /\ \A i \in 1..Len(Listed) : Listed[i].absent \subseteq Guarded)
           => /\ ~out.caught
              /\ \A k \in 1..Len(Entries) :
                    /\ out.handler \in ProductLists =>
                          /\ (Listed[k].variants = <<>>) => (Entries[k].variants = <<>>)
                          /\ (Listed[k].images = <<>>) => (Entries[k].images = <<>>)
                    /\ (out.handler \in CustomerLists /\ Listed[k].addresses = <<>>) =>
                          (Entries[k].addresses = <<>>)
                    /\ out.handler \in OrderLists =>
                          /\ (Listed[k].customer = <<>>) => (Entries[k].customer = EmptyMap)
                          /\ (Listed[k].shipping_address = <<>>) =>
                                (Entries[k].shipping_address = EmptyMap)
                          /\ (Listed[k].line_items = <<>>) => (Entries[k].line_items = <<>>)

\* a customer record without the addresses attribute, listed after one with two
C14_Witness ==
    /\ Finished /\ out.handler \in CustomerLists /\ ~out.caught
    /\ upstream.customers = <<CustomerFull, CustomerBare>>
    /\ "addresses" \in CustomerBare.absent
    /\ Len(Entries) = 2 /\ Entries[2].addresses = <<>>

-----------------------------------------------------------------------------
(* C19 *)

\* title + vendor + product_type + tags as one string
Concatenated(p) == p.title \o p.vendor \o p.product_type \o p.tags

InResult(p) == \E k \in 1..Len(out.returned.items) : out.returned.items[k].id = p.id

\* C19 as stated: a product of the working set is returned iff the lower-cased
\* query is a substring of the lower-cased concatenation title + vendor +
\* product_type + tags, a query that straddles two adjacent fields included.
C19_ConcatenationMatches ==
    (SearchDone /\ NotCut) =>
        \A i \in 1..Len(upstream.products) :
            LET p == upstream.products[i]
            IN  (\A f \in {"title", "vendor", "product_type", "tags"} : p[f] # NoneStr) =>
                    (InResult(p) <=> In(lower(SearchQuery), lower(Concatenated(p))))

\* C19 as amended: a product of the working set is returned iff the lower-cased
\* query is a substring of at least one of its lower-cased title, vendor,
\* product_type and tags, each field tested by itself; a query that is found
\* only across the boundary of two fields does not match.
C19_EachFieldByItself ==
    (SearchDone /\ NotCut) =>
        \A i \in 1..Len(upstream.products) :
            InResult(upstream.products[i]) <=> FieldMatches(SearchQuery, upstream.products[i])

\* "ab" ends the title "ca" and begins the vendor "bd"
C19_Witness ==
    /\ SearchDone /\ NotCut /\ lower(SearchQuery) = <<"a", "b">>
    /\ \E i \in 1..Len(upstream.products) :
          /\ upstream.products[i] = ProductSplit
          /\ In(<<"a", "b">>, lower(Concatenated(ProductSplit)))
    /\ ~InResult(ProductSplit)
    /\ out.returned.items # <<>>

-----------------------------------------------------------------------------
(* C20 *)

\* C20: in every entry of a search result 'images' is the empty list, and
\* 'image' is there iff the product has an image, holding the src of the
\* product's first image and nothing else.
C20_FirstImageOnly ==
    SearchDone =>
        \A k \in 1..Len(out.returned.items) :
            LET e == out.returned.items[k]
            IN  /\ e.images = <<>>
                /\ \E i \in 1..Len(upstream.products) : upstream.products[i].id = e.id
                /\ \A i \in 1..Len(upstream.products) :
                      LET p == upstream.products[i]
                      IN  p.id = e.id =>
                            /\ "image" \in DOMAIN e <=> p.images # <<>>
                            /\ "image" \in DOMAIN e => e.image = [src |-> p.images[1].src]

\* a product with two images and one with none in one result
C20_Witness ==
    /\ SearchDone /\ Len(out.returned.items) = 2
    /\ upstream.products = <<ProductAlpha, ProductTagged>>
    /\ Len(ProductAlpha.images) = 2
    /\ out.returned.items[1].image = [src |-> "u101"]
    /\ "image" \notin DOMAIN out.returned.items[2]

-----------------------------------------------------------------------------
(* C15 *)

\* SHOPIFY_SHOP_URL is not set (or empty), or neither SHOPIFY_ACCESS_TOKEN nor
\* both of SHOPIFY_API_KEY and SHOPIFY_PASSWORD are
MissingConfig ==
    \/ environ.SHOPIFY_SHOP_URL \in {Unset, ""}
    \/ /\ environ.SHOPIFY_ACCESS_TOKEN \in {Unset, ""}
       /\ environ.SHOPIFY_API_KEY \in {Unset, ""} \/ environ.SHOPIFY_PASSWORD \in {Unset, ""}

\* the process is in its serving loop
Serving == pc \in {"accept", "handling", "finish"}

\* C15: with required configuration missing, the process never binds the
\* socket nor enters the serving loop and serves no request; its startup can
\* only go on to sys.exit(1), and when it has exited the code is 1.
C15_MissingConfigExitsBeforeListening ==
    MissingConfig =>
        /\ ~listening /\ ~Serving /\ req = NoRequest /\ out = NoOutcome
        /\ pc = "start" => ENABLED Main
        /\ pc = "init" => ENABLED InitShopifyApi
        /\ pc = "initialized" => (~initialized /\ ENABLED ExitFailure /\ ~ENABLED Listen)
        /\ pc = "exited" => exit_code = "1"

\* a store URL and an API key without its password
C15_Witness ==
    /\ MissingConfig /\ pc = "exited" /\ exit_code = "1"
    /\ Truthy(environ.SHOPIFY_SHOP_URL) /\ Truthy(environ.SHOPIFY_API_KEY)

-----------------------------------------------------------------------------
(* C16 *)

\* C16: on both surfaces the process serves only after a startup call to the
\* platform has succeeded, so never with credentials the platform rejects.
C16_RejectedCredentialsNeverServe ==
    (Serving \/ listening) =>
        /\ accepts
        /\ startup_calls # <<>> /\ ~ClientRaised([calls |-> startup_calls])

-----------------------------------------------------------------------------
(* C17 *)

\* a step in which a request makes progress
Progress == GET \/ POST \/ OPTIONS \/ CallTool \/ ClientReturns \/ NextRequest

\* C17: a request is taken only when no request is in progress, the request in
\* progress and what its client call met stay the same until its handler has
\* ended, and while the client call of a request does not return no request
\* makes progress.
C17_OneRequestAtATime ==
    /\ [][(req' # req /\ req' # NoRequest) =>
             (pc = "accept" /\ req = NoRequest /\ out = NoOutcome)]_vars
    /\ [][pc = "handling" => (req' = req /\ upstream' = upstream /\ pc' \in {"handling", "finish"})]_vars
    /\ []((pc = "handling" /\ upstream.hang) => ~ENABLED Progress)

\* a tool is blocked in a client call that does not return
C17_Witness == pc = "handling" /\ upstream.hang /\ req.verb = "TOOL"

-----------------------------------------------------------------------------
(* C18 *)

\* the envelope of the request parses and names an entry of the registry
Validated ==
    CASE req.verb = "GET" ->
            startswith_api(req.path) /\ SubPath \in {<<e>> : e \in Endpoints}
      [] req.verb = "POST" ->
            /\ req.path = <<"/mcp">> /\ BodyReadable /\ NamesMethod
            /\ PostMethod \in {"get_product_list", "get_customer_list", "get_order_list",
                               "search_products", "get_store_info"}
      [] req.verb = "TOOL" ->
            req.name \in {"get_products", "get_product_details", "get_customers",
                          "get_customer_details", "get_orders", "search_products",
                          "get_store_info"}
      [] OTHER -> FALSE

\* a handler was invoked for the request
Dispatched == pc = "handling" \/ (Finished /\ (out.handler # "" \/ out.calls # <<>>))

\* the request ended without a result
Failed == Finished /\ (~out.written \/ out.tool_error \/ out.status >= 400)

\* C18: a handler, and so the client, is invoked only for a request whose
\* envelope parsed and whose method is in the registry; Succeeded is entered
\* only from Dispatched; Succeeded and Failed exclude each other and are
\* terminal: the next step leaves the request behind.
C18_RouterOrder ==
    /\ [](Dispatched => Validated)
    /\ [](~(Succeeded /\ Failed))
    /\ [][(Succeeded' /\ ~Succeeded) => pc = "handling"]_vars
    /\ [][pc = "finish" => (pc' = "accept" /\ req' = NoRequest)]_vars

-----------------------------------------------------------------------------
(* C21 *)

AllLists == ProductLists \cup CustomerLists \cup OrderLists

\* the records the client hands to a list handler
Fetched ==
    IF RequestLimit.jt = "int" /\ RequestLimit.int >= 1
    THEN Take(Listed, RequestLimit.int)
    ELSE Listed

\* the attributes a list handler reads of every record without a guard
Unguarded ==
    CASE out.handler \in ProductLists -> ProductAttrs
      [] out.handler \in CustomerLists -> CustomerAttrs
      [] out.handler \in OrderLists -> OrderAttrs

\* the matches a search is to return: every match of the working set, on the
\* tool those up to the one at which the loop leaves
ToReturn ==
    LET all == SelectSeq(upstream.products, LAMBDA p : FieldMatches(SearchQuery, p))
    IN  IF req.verb = "TOOL"
        THEN Take(all, Max(Get(req.arguments, "limit", JInt(DefaultLimit)).int, 1))
        ELSE all

\* the search loop reaches record i: on the tool it has not left before
Reached(i) ==
    req.verb = "TOOL" =>
        Len(SelectSeq(SubSeq(upstream.products, 1, i - 1),
                      LAMBDA p : FieldMatches(SearchQuery, p)))
            < Max(Get(req.arguments, "limit", JInt(DefaultLimit)).int, 1)

\* testing or transforming record p raises during a search for q
RaisesInSearch(q, p) ==
    \/ Match(lower(q), p) = "raise"
    \/ Match(lower(q), p) = "match" /\ p.absent \cap SearchAttrs # {}

\* C21: a list or search handler returns either an entry for every record it
\* was to return, or []: when the fetch raises, or the test or transformation
\* of one record the loop reaches raises, the entries collected before it are
\* dropped and [] is returned.
C21_AllOrNothing ==
    (Finished /\ out.handler \in AllLists \cup {"search_products"}) =>
        /\ out.returned.py = "list"
        /\ out.caught => out.returned.items = <<>>
        /\ ClientRaised(out) => (out.caught /\ out.returned.items = <<>>)
        /\ out.handler \in AllLists =>
              /\ ~out.caught => Ids(out.returned.items) = Ids(Fetched)
              /\ (\E i \in 1..Len(Fetched) : Fetched[i].absent \cap Unguarded # {}) =>
                    (out.caught /\ out.returned.items = <<>>)
        /\ out.handler = "search_products" =>
              /\ ~out.caught => Ids(out.returned.items) = Ids(ToReturn)
              /\ (\E i \in 1..Len(upstream.products) :
                     Reached(i) /\ RaisesInSearch(SearchQuery, upstream.products[i])) =>
                    (out.caught /\ out.returned.items = <<>>)

\* the first product matches and is transformed, the second has no tags to test
C21_Witness ==
    /\ Finished /\ out.handler = "search_products" /\ req.verb = "GET"
    /\ ~ClientRaised(out) /\ Len(upstream.products) = 2
    /\ FieldMatches(SearchQuery, upstream.products[1])
    /\ ~RaisesInSearch(SearchQuery, upstream.products[1])
    /\ upstream.products[2].tags = NoneStr
    /\ out.caught /\ out.returned.items = <<>>

-----------------------------------------------------------------------------
(* C22 *)

\* a search that gives no query: GET /api/search without q (or with a blank
\* q), POST /mcp search_products whose params have no 'query'
SearchWithoutQuery ==
    \/ /\ GetApi /\ SubPath = <<"search">>
       /\ \A i \in 1..Len(req.query) : req.query[i].key = "q" => req.query[i].value = <<>>
    \/ /\ PostToMcp /\ BodyReadable /\ NamesMethod /\ PostMethod = "search_products"
       /\ Get(req.body.doc.map, "params", JsonParams(EmptyMap)).is_dict
       /\ "query" \notin DOMAIN Get(req.body.doc.map, "params", JsonParams(EmptyMap)).map

\* C22: a search without a query is not rejected: search_products runs with
\* the empty string and the answer is 200; when the client answers and every
\* product of the working set can be transformed, the result has every
\* product of the working set, in its order.
C22_EmptyQueryMatchesAll ==
    SearchWithoutQuery =>
        /\ out.handler = "search_products" /\ out.written /\ out.status = 200
        /\ Len(out.calls) = 1 /\ out.calls[1].arg = JInt(50)
        /\ (/\ ~ClientRaised(out)
            /\ \A i \in 1..Len(upstream.products) :
                  /\ upstream.products[i].absent = {}
                  /\ upstream.products[i].title # NoneStr)
           => (~out.caught /\ Ids(out.returned.items) = Ids(upstream.products))

\* two products, one of them with tags that are None, and no q in the request
C22_Witness ==
    /\ SearchWithoutQuery /\ req.verb = "GET" /\ req.query = <<>>
    /\ upstream.products = <<ProductNoTags, ProductAlpha>>
    /\ Ids(out.returned.items) = <<4, 1>>

====
